---- MODULE Spec2Model ----
(***************************************************************************)
(* The freestanding examples of mini-elf-linker-jl (src/examples/*.c) as   *)
(* one state machine: a process that runs the functions of one C file,     *)
(* statement by statement, against the Linux x86_64 system-call interface. *)
(*                                                                         *)
(* A frame of the call stack is [fn, pc, a, v]: the function, the source   *)
(* line it is at ("entry" before its first statement, else the line it    *)
(* resumes at), its arguments and its one local (len or result).  rv is    *)
(* the return register (rax after a return).  The kernel is the            *)
(* environment: the result of a write is its choice.                       *)
(***************************************************************************)
EXTENDS Integers, Sequences, FiniteSets, TLC

VARIABLES
    file,      \* the C file linked into the process
    mem,       \* the process's readable bytes, addressed 1..Len(mem)
    stack,     \* call stack, innermost frame last
    rv,        \* return-value register
    traps,     \* requests the kernel saw during the current top-level call
    results,   \* results the kernel returned during the current top-level call
    stdout,    \* bytes that reached the stream of handle 1
    proc,      \* "Running" | "Terminated" | "Crashed"
    status,    \* exit status seen by the parent (-1 while there is none)
    ncalls,    \* top-level calls made by the entry program so far
    entry,     \* the current top-level call, [fn, a]
    out0       \* stdout as it was when the current top-level call began

vars == <<file, mem, stack, rv, traps, results, stdout, proc, status, ncalls, entry, out0>>

env   == <<traps, results, stdout, proc, status>>
ghost == <<file, mem, ncalls, entry, out0>>

---------------------------------------------------------------------------
(* Bounds of the model *)

\* bytes of test memory that follow the message and its terminator
MaxTail == 2
\* largest count the entry program passes to an output primitive directly
MaxCount == 2
\* top-level calls the entry program makes in one process
MaxCalls == 2

---------------------------------------------------------------------------
(* Program constants *)

SYS_WRITE == 1
SYS_EXIT == 60
STDOUT_FILENO == 1

\* "Hello World!\n": the string literal of hello_world.c:47, hello_msg of
\* working_hello.c:4 and the .ascii of inline_hello.c:18
hello_msg == <<72, 101, 108, 108, 111, 32, 87, 111, 114, 108, 100, 33, 10>>

\* the address the message is linked at (symbolic: the first byte of mem)
HelloAddr == 1

\* the first byte after the message's terminating zero
TailAddr == HelloAddr + Len(hello_msg) + 1

\* byte values of the test memory
TailBytes == {0, 65}

\* memory images: the message, its zero byte, then MaxTail bytes ending in zero
MemImages ==
    { hello_msg \o <<0>> \o t \o <<0>> : t \in [1..(MaxTail - 1) -> TailBytes] }

\* error results a write may get from the kernel (-EBADF, -EPIPE)
Errnos == {-9, -32}

\* register contents an asm statement does not set
Unspecified == {0, 13}

---------------------------------------------------------------------------
(* Stack helpers *)

Frame(fn, args) == [fn |-> fn, pc |-> "entry", a |-> args, v |-> 0]

Top == stack[Len(stack)]

At(fn) == /\ proc = "Running"
          /\ stack # <<>>
          /\ Top.fn = fn

Goto(pc, v) == stack' = [stack EXCEPT ![Len(stack)] = [@ EXCEPT !.pc = pc, !.v = v]]

CallFn(retpc, fn, args) ==
    stack' = Append([stack EXCEPT ![Len(stack)].pc = retpc], Frame(fn, args))

Return(val) == /\ stack' = SubSeq(stack, 1, Len(stack) - 1)
               /\ rv' = val

\* the byte a load from address a can yield; a load outside the mapped bytes
\* is undefined and may yield anything
Load(a) == IF a \in 1..Len(mem) THEN {mem[a]} ELSE 0..255

\* what executing past a point the build assumes unreachable can do
Undefined == \/ /\ proc' = "Crashed"
                /\ UNCHANGED <<stack, rv, traps, results, stdout, status>>
             \/ /\ Return(rv)
                /\ UNCHANGED env

---------------------------------------------------------------------------
(* The kernel side of the syscall instruction.  A request is                *)
(* <<rax, rdi, rsi, rdx>>.                                                  *)

\* what the kernel reads of a request: exit takes one argument, write three
KernelView(req) == IF req[1] = 60 THEN <<req[1], req[2]>> ELSE req

\* the results the kernel can give
KernelResults(req) ==
    IF req[1] = 60 THEN {0}
    ELSE IF req[1] = 1
         THEN IF req[4] >= 0 /\ req[3] >= 1 /\ req[3] + req[4] - 1 <= Len(mem)
              THEN (0..req[4]) \cup Errnos
              ELSE {-14}
         ELSE {-38}

Kernel(req, res) ==
    /\ traps' = Append(traps, KernelView(req))
    /\ IF req[1] = 60
       THEN /\ proc' = "Terminated"
            /\ status' = req[2] % 256
            /\ UNCHANGED <<results, stdout>>
       ELSE /\ results' = Append(results, res)
            /\ stdout' = IF req[1] = 1 /\ req[2] = 1 /\ res > 0
                         THEN stdout \o SubSeq(mem, req[3], req[3] + res - 1)
                         ELSE stdout
            /\ UNCHANGED <<proc, status>>

\* one syscall instruction: the trap, then (if the process survives) the
\* result in rax, kept in the frame's local, and control at nextpc
Trap(req, nextpc) ==
    \E res \in KernelResults(req) :
        /\ Kernel(req, res)
        /\ IF req[1] = 60
           THEN UNCHANGED stack
           ELSE Goto(nextpc, res)
        /\ UNCHANGED rv

---------------------------------------------------------------------------
(* hello_world.c *)

syscall_request(number, arg1, arg2, arg3) == <<number, arg1, arg2, arg3>>

syscall ==
    /\ At("syscall")
    /\ CASE Top.pc = "entry" ->
              Trap(syscall_request(Top.a[1], Top.a[2], Top.a[3], Top.a[4]), "20")
         [] Top.pc = "20" ->
              /\ Return(Top.v)
              /\ UNCHANGED env
    /\ UNCHANGED ghost

\* (mutant) the count is passed one short
write_args_short(fd, buf, count) == <<SYS_WRITE, fd, buf, count - 1>>

write_args(fd, buf, count) == <<SYS_WRITE, fd, buf, count>>

\* (mutant) a kernel failure is swallowed and reported as zero bytes
write_result_swallow(r) == IF r < 0 THEN 0 ELSE r

write_result(r) == r

write ==
    /\ At("write")
    /\ CASE Top.pc = "entry" ->
              /\ CallFn("25", "syscall", write_args(Top.a[1], Top.a[2], Top.a[3]))
              /\ UNCHANGED rv
         [] Top.pc = "25" ->
              Return(write_result(rv))
    /\ UNCHANGED <<env, ghost>>

\* (mutant) the wrong operation code: the trap returns
exit_args_as_write(exit_status) == <<SYS_WRITE, exit_status, 0, 0>>

\* (mutant) the primitive, not the environment, truncates the status
exit_args_masked(exit_status) == <<SYS_EXIT, exit_status % 256, 0, 0>>

exit_args(exit_status) == <<SYS_EXIT, exit_status, 0, 0>>

hello_world_exit ==
    /\ At("hello_world_exit")
    /\ CASE Top.pc = "entry" ->
              /\ CallFn("31", "syscall", exit_args(Top.a[1]))
              /\ UNCHANGED <<rv, env>>
         [] Top.pc = "31" ->
              Undefined
    /\ UNCHANGED ghost

\* (mutant) len is left uninitialised and starts from the stale register
strlen_init_stale == rv

strlen_init == 0

\* (mutant) the terminator is counted
strlen_result_off_by_one(len) == len + 1

strlen_result(len) == len

strlen ==
    /\ At("strlen")
    /\ CASE Top.pc = "entry" ->
              /\ Goto("37", strlen_init)
              /\ UNCHANGED rv
         [] Top.pc = "37" ->
              /\ \E b \in Load(Top.a[1] + Top.v) :
                    IF b # 0 THEN Goto("37", Top.v + 1) ELSE Goto("38", Top.v)
              /\ UNCHANGED rv
         [] Top.pc = "38" ->
              Return(strlen_result(Top.v))
    /\ UNCHANGED <<env, ghost>>

\* (mutant) the last byte is dropped
print_write_args_short(str, len) == <<STDOUT_FILENO, str, len - 1>>

print_write_args(str, len) == <<STDOUT_FILENO, str, len>>

print ==
    /\ At("print")
    /\ CASE Top.pc = "entry" ->
              /\ CallFn("43a", "strlen", <<Top.a[1]>>)
              /\ UNCHANGED rv
         [] Top.pc = "43a" ->
              /\ CallFn("44", "write", print_write_args(Top.a[1], rv))
              /\ UNCHANGED rv
         [] Top.pc = "44" ->
              Return(rv)
    /\ UNCHANGED <<env, ghost>>

\* (mutant) main reports a short or failed write in its exit status
hello_world_exit_status_checked == IF rv = 13 THEN 0 ELSE 1

hello_world_exit_status == 0

hello_world_main ==
    /\ At("hello_world_main")
    /\ CASE Top.pc = "entry" ->
              /\ CallFn("48", "print", <<HelloAddr>>)
              /\ UNCHANGED rv
         [] Top.pc = "48" ->
              /\ CallFn("49", "hello_world_exit", <<hello_world_exit_status>>)
              /\ UNCHANGED rv
         [] Top.pc = "49" ->
              Return(0)
    /\ UNCHANGED <<env, ghost>>

---------------------------------------------------------------------------
(* working_hello.c *)

write_syscall_request(fd, buf, count) == <<1, fd, buf, count>>

write_syscall ==
    /\ At("write_syscall")
    /\ CASE Top.pc = "entry" ->
              Trap(write_syscall_request(Top.a[1], Top.a[2], Top.a[3]), "19")
         [] Top.pc = "19" ->
              /\ Return(Top.v)
              /\ UNCHANGED env
    /\ UNCHANGED ghost

exit_syscall_request(code, rsi, rdx) == <<60, code, rsi, rdx>>

exit_syscall ==
    /\ At("exit_syscall")
    /\ CASE Top.pc = "entry" ->
              \E rsi \in Unspecified, rdx \in Unspecified :
                  Trap(exit_syscall_request(Top.a[1], rsi, rdx), "31")
         [] Top.pc = "31" ->
              /\ Return(rv)
              /\ UNCHANGED env
    /\ UNCHANGED ghost

\* (mutant) sizeof(hello_msg), which counts the terminating zero
working_hello_write_args_sizeof == <<1, HelloAddr, 14>>

working_hello_write_args == <<1, HelloAddr, 13>>

working_hello_exit_code == 0

working_hello_main ==
    /\ At("working_hello_main")
    /\ CASE Top.pc = "entry" ->
              /\ CallFn("35", "write_syscall", working_hello_write_args)
              /\ UNCHANGED rv
         [] Top.pc = "35" ->
              /\ CallFn("36", "exit_syscall", <<working_hello_exit_code>>)
              /\ UNCHANGED rv
         [] Top.pc = "36" ->
              Return(0)
    /\ UNCHANGED <<env, ghost>>

---------------------------------------------------------------------------
(* inline_hello.c: one asm statement holding two syscall instructions and   *)
(* then the message bytes.                                                  *)

inline_hello_write_request == <<1, 1, HelloAddr, 13>>

\* rsi and rdx still hold the write's arguments at the second trap
inline_hello_exit_request == <<60, 0, HelloAddr, 13>>

inline_hello_main ==
    /\ At("inline_hello_main")
    /\ CASE Top.pc = "entry" ->
              Trap(inline_hello_write_request, "13")
         [] Top.pc = "13" ->
              Trap(inline_hello_exit_request, "17")
         [] Top.pc = "17" ->
              \* the bytes of the message would be executed as instructions
              \/ /\ proc' = "Crashed"
                 /\ UNCHANGED <<stack, rv, traps, results, stdout, status>>
              \/ /\ Goto("23", Top.v)
                 /\ UNCHANGED <<rv, env>>
         [] Top.pc = "23" ->
              /\ Return(0)
              /\ UNCHANGED env
    /\ UNCHANGED ghost

---------------------------------------------------------------------------
(* simple_exit.c *)

simple_exit_request(exit_status, rsi, rdx) == <<60, exit_status, rsi, rdx>>

simple_exit_exit ==
    /\ At("simple_exit_exit")
    /\ CASE Top.pc = "entry" ->
              \E rsi \in Unspecified, rdx \in Unspecified :
                  Trap(simple_exit_request(Top.a[1], rsi, rdx), "17")
         [] Top.pc = "17" ->
              Undefined
    /\ UNCHANGED ghost

simple_exit_status == 42

simple_exit_main ==
    /\ At("simple_exit_main")
    /\ CASE Top.pc = "entry" ->
              /\ CallFn("22", "simple_exit_exit", <<simple_exit_status>>)
              /\ UNCHANGED rv
         [] Top.pc = "22" ->
              Return(0)
    /\ UNCHANGED <<env, ghost>>

---------------------------------------------------------------------------
(* printf_stub.c *)

sys_write_request(fd, buf, count) == <<SYS_WRITE, fd, buf, count>>

sys_write ==
    /\ At("sys_write")
    /\ CASE Top.pc = "entry" ->
              Trap(sys_write_request(Top.a[1], Top.a[2], Top.a[3]), "18")
         [] Top.pc = "18" ->
              /\ Return(Top.v)
              /\ UNCHANGED env
    /\ UNCHANGED ghost

my_strlen ==
    /\ At("my_strlen")
    /\ CASE Top.pc = "entry" ->
              /\ Goto("24", 0)
              /\ UNCHANGED rv
         [] Top.pc = "24" ->
              /\ \E b \in Load(Top.a[1] + Top.v) :
                    IF b # 0 THEN Goto("24", Top.v + 1) ELSE Goto("25", Top.v)
              /\ UNCHANGED rv
         [] Top.pc = "25" ->
              Return(Top.v)
    /\ UNCHANGED <<env, ghost>>

printf_write_args(format, len) == <<1, format, len>>

\* line 33 returns my_strlen(format); written is line 32's discarded result
\* (mutant) the number of bytes written is returned, as printf(3) would
printf_result_written(len, written) == written

printf_result(len, written) == len

printf ==
    /\ At("printf")
    /\ CASE Top.pc = "entry" ->
              /\ CallFn("32a", "my_strlen", <<Top.a[1]>>)
              /\ UNCHANGED rv
         [] Top.pc = "32a" ->
              /\ CallFn("32b", "sys_write", printf_write_args(Top.a[1], rv))
              /\ UNCHANGED rv
         [] Top.pc = "32b" ->
              \* sys_write's result is dropped; the local keeps it for line 33
              /\ Goto("33", rv)
              /\ UNCHANGED rv
         [] Top.pc = "33" ->
              /\ CallFn("33a", "my_strlen", <<Top.a[1]>>)
              /\ UNCHANGED rv
         [] Top.pc = "33a" ->
              Return(printf_result(rv, Top.v))
    /\ UNCHANGED <<env, ghost>>

---------------------------------------------------------------------------
(* The entry program: whatever starts the process or calls a primitive.     *)

StrAddrs == {HelloAddr, HelloAddr + 12, HelloAddr + 13} \cup (TailAddr..(TailAddr + MaxTail - 1))

Fds == {1, 2}

WriteCalls == { <<fd, buf, n>> : fd \in Fds, buf \in {HelloAddr, TailAddr}, n \in 0..MaxCount }

StatusSet == {0, 42, 142, 255, 256, 300, -1}

\* the calls the entry program can make into a file; a main is the
\* process's first call
Calls(f, n) ==
    CASE f = "hello_world.c" ->
           { [fn |-> "strlen", a |-> <<s>>] : s \in StrAddrs }
           \cup { [fn |-> "write", a |-> w] : w \in WriteCalls }
           \cup { [fn |-> "print", a |-> <<s>>] : s \in StrAddrs }
           \cup { [fn |-> "hello_world_exit", a |-> <<s>>] : s \in StatusSet }
           \cup (IF n = 0 THEN { [fn |-> "hello_world_main", a |-> <<>>] } ELSE {})
      [] f = "working_hello.c" ->
           { [fn |-> "write_syscall", a |-> w] : w \in WriteCalls }
           \cup { [fn |-> "exit_syscall", a |-> <<s>>] : s \in StatusSet }
           \cup (IF n = 0 THEN { [fn |-> "working_hello_main", a |-> <<>>] } ELSE {})
      [] f = "inline_hello.c" ->
           IF n = 0 THEN { [fn |-> "inline_hello_main", a |-> <<>>] } ELSE {}
      [] f = "simple_exit.c" ->
           { [fn |-> "simple_exit_exit", a |-> <<s>>] : s \in StatusSet }
           \cup (IF n = 0 THEN { [fn |-> "simple_exit_main", a |-> <<>>] } ELSE {})
      [] f = "printf_stub.c" ->
           { [fn |-> "my_strlen", a |-> <<s>>] : s \in StrAddrs }
           \cup { [fn |-> "sys_write", a |-> w] : w \in WriteCalls }
           \cup { [fn |-> "printf", a |-> <<s>>] : s \in StrAddrs }

Files == {"hello_world.c", "working_hello.c", "inline_hello.c", "simple_exit.c", "printf_stub.c"}

Caller ==
    /\ proc = "Running"
    /\ stack = <<>>
    /\ ncalls < MaxCalls
    /\ \E c \in Calls(file, ncalls) :
          /\ stack' = <<Frame(c.fn, c.a)>>
          /\ entry' = c
    /\ ncalls' = ncalls + 1
    /\ traps' = <<>>
    /\ results' = <<>>
    /\ out0' = stdout
    /\ UNCHANGED <<file, mem, rv, stdout, proc, status>>

---------------------------------------------------------------------------

Init ==
    /\ file \in Files
    /\ mem \in MemImages
    /\ stack = <<>>
    /\ rv = 0
    /\ traps = <<>>
    /\ results = <<>>
    /\ stdout = <<>>
    /\ proc = "Running"
    /\ status = -1
    /\ ncalls = 0
    /\ entry = [fn |-> "none", a |-> <<>>]
    /\ out0 = <<>>

Next ==
    \/ Caller
    \/ syscall
    \/ write
    \/ hello_world_exit
    \/ strlen
    \/ print
    \/ hello_world_main
    \/ write_syscall
    \/ exit_syscall
    \/ working_hello_main
    \/ inline_hello_main
    \/ simple_exit_exit
    \/ simple_exit_main
    \/ sys_write
    \/ my_strlen
    \/ printf

Spec == Init /\ [][Next]_vars

---------------------------------------------------------------------------
(* Vocabulary of the properties *)

\* the number of bytes before the first zero byte at or after address s
FirstZero(s) ==
    CHOOSE L \in 0..Len(mem) :
        /\ s + L <= Len(mem)
        /\ mem[s + L] = 0
        /\ \A i \in 0..(L - 1) : mem[s + i] # 0

\* the current top-level call has returned to the entry program
Returned == /\ proc = "Running"
            /\ stack = <<>>
            /\ ncalls > 0

StrlenFns == {"strlen", "my_strlen"}
WriteFns == {"write", "write_syscall", "sys_write"}
ExitFns == {"hello_world_exit", "exit_syscall", "simple_exit_exit"}
HelloMains == {"hello_world_main", "working_hello_main", "inline_hello_main"}
Mains == HelloMains \cup {"simple_exit_main"}

\* the bytes handle 1 received during the current top-level call
Emitted == Len(stdout) - Len(out0)

\* the first n bytes of the message
Prefix(n) == SubSeq(hello_msg, 1, n)

\* the kernel transferred every byte its first request asked for
AcceptedInFull == /\ results # <<>>
                  /\ traps # <<>>
                  /\ Len(traps[1]) = 4
                  /\ results[1] = traps[1][4]

\* control is at a statement that follows a terminate call
AfterTerminate ==
    /\ stack # <<>>
    /\ \/ Top.fn = "hello_world_exit" /\ Top.pc = "31"
       \/ Top.fn = "hello_world_main" /\ Top.pc = "49"
       \/ Top.fn = "syscall" /\ Top.pc = "20" /\ Top.a[1] = SYS_EXIT
       \/ Top.fn = "exit_syscall" /\ Top.pc = "31"
       \/ Top.fn = "working_hello_main" /\ Top.pc = "36"
       \/ Top.fn = "inline_hello_main" /\ Top.pc \in {"17", "23"}
       \/ Top.fn = "simple_exit_exit" /\ Top.pc = "17"
       \/ Top.fn = "simple_exit_main" /\ Top.pc = "22"

---------------------------------------------------------------------------
(* C1: the Termination Primitive never returns.  Every step is taken by a  *)
(* running process; a step that ends the running state is the trap of an   *)
(* exit request, leads straight to Terminated and changes neither the      *)
(* stream nor the stack; no statement after a terminate call is ever       *)
(* reached, no terminate call or main ever returns, nothing crashes.       *)
C1_Step ==
    /\ proc = "Running"
    /\ proc' # "Running" =>
          /\ proc' = "Terminated"
          /\ traps' = Append(traps, <<SYS_EXIT, traps'[Len(traps')][2]>>)
          /\ stdout' = stdout
          /\ stack' = stack
    /\ ~AfterTerminate'
    /\ ~(Returned' /\ entry'.fn \in ExitFns \cup Mains)

C1_TerminateNeverReturns == [][C1_Step]_vars

C1_Witness ==
    /\ proc = "Terminated"
    /\ entry.fn \in {"hello_world_exit", "exit_syscall", "simple_exit_main", "inline_hello_main"}

---------------------------------------------------------------------------
(* C2: end-to-end Hello World.  When the stream takes the whole write,     *)
(* a hello program has put exactly the 13 bytes "Hello World!\n" on        *)
(* standard output, and it ends with those bytes written, one write made   *)
(* before the exit, and exit status 0.                                     *)
C2_HelloWorld ==
    entry.fn \in HelloMains =>
        /\ AcceptedInFull => stdout = hello_msg /\ results = <<13>>
        /\ proc = "Terminated" =>
              /\ Len(results) = 1
              /\ status = 0
        /\ proc = "Terminated" /\ AcceptedInFull => Len(stdout) = 13

C2_Witness ==
    /\ entry.fn = "hello_world_main"
    /\ proc = "Terminated"
    /\ stdout = hello_msg
    /\ status = 0

---------------------------------------------------------------------------
(* C3: length_of returns the number of bytes before the first zero byte.   *)
(* The scan index never passes the first zero byte, every byte behind it   *)
(* is non-zero, the scan leaves the loop only at the first zero byte, and  *)
(* the value returned is that index.                                       *)
C3_LengthOf ==
    /\ stack # <<>> /\ Top.fn \in StrlenFns =>
          /\ Top.v <= FirstZero(Top.a[1])
          /\ \A i \in 0..(Top.v - 1) : mem[Top.a[1] + i] # 0
          /\ Top.pc \in {"38", "25"} => Top.v = FirstZero(Top.a[1])
    /\ Returned /\ entry.fn \in StrlenFns => rv = FirstZero(entry.a[1])
    /\ stack # <<>> /\ Top.fn = "print" /\ Top.pc = "43a" => rv = FirstZero(Top.a[1])

C3_Witness ==
    /\ Returned
    /\ entry.fn = "strlen"
    /\ rv = 1
    /\ mem[entry.a[1] + 2] # 0

---------------------------------------------------------------------------
(* C4: terminate(s) gives exit status s mod 256, and s itself reaches the  *)
(* kernel as the first argument of the one exit request.                   *)
C4_ExitStatus ==
    /\ proc = "Terminated" /\ entry.fn \in ExitFns =>
          /\ traps = << <<SYS_EXIT, entry.a[1]>> >>
          /\ status = entry.a[1] % 256
          /\ status \in 0..255
          /\ entry.a[1] \in 0..255 => status = entry.a[1]
          /\ entry.a[1] = 300 => status = 44
          /\ stdout = out0
    /\ proc = "Terminated" /\ entry.fn = "simple_exit_main" =>
          /\ status = 42
          /\ stdout = <<>>

C4_Witness ==
    /\ proc = "Terminated"
    /\ entry.fn = "hello_world_exit"
    /\ entry.a[1] = 300
    /\ status = 44

---------------------------------------------------------------------------
(* C5: a write that the stream accepts in full returns the requested       *)
(* count and appends exactly the first count bytes of the sequence to the  *)
(* stream; with count 0 it returns zero and appends nothing.               *)
C5_FullWrite ==
    Returned /\ entry.fn \in WriteFns /\ AcceptedInFull =>
        /\ rv = entry.a[3]
        /\ entry.a[1] = STDOUT_FILENO =>
              stdout = out0 \o SubSeq(mem, entry.a[2], entry.a[2] + entry.a[3] - 1)
        /\ entry.a[1] # STDOUT_FILENO => stdout = out0
        /\ entry.a[3] = 0 => rv = 0 /\ stdout = out0

C5_Witness ==
    /\ Returned
    /\ entry.fn = "write"
    /\ entry.a = <<1, TailAddr, 2>>
    /\ rv = 2
    /\ Emitted = 2

---------------------------------------------------------------------------
(* C6: a call of the Output Primitive makes exactly one trap, carrying     *)
(* {1, stream_handle, address, count}, and hands the kernel's result back  *)
(* unchanged; a failure is the negative result, with no second trap and    *)
(* nothing written.                                                        *)
C6_OneTrap ==
    /\ entry.fn \in WriteFns => Len(traps) <= 1 /\ Len(results) = Len(traps)
    /\ Returned /\ entry.fn \in WriteFns =>
          /\ traps = << <<1, entry.a[1], entry.a[2], entry.a[3]>> >>
          /\ rv = results[1]
          /\ results[1] < 0 => rv < 0 /\ stdout = out0

C6_Witness ==
    /\ Returned
    /\ entry.fn \in {"write", "sys_write"}
    /\ rv = -9

---------------------------------------------------------------------------
(* C7: the primitives keep no state between calls.  A step of length_of    *)
(* changes neither memory, the stream, the process state nor the trap log; *)
(* no step changes memory; and the value a top-level call returns is a     *)
(* function of its arguments and of the kernel's result alone, whatever    *)
(* calls came before.                                                      *)
C7_Result(c, res) ==
    CASE c.fn \in StrlenFns -> FirstZero(c.a[1])
      [] c.fn \in WriteFns -> res[1]
      [] c.fn = "printf" -> FirstZero(c.a[1])

C7_Step ==
    /\ mem' = mem
    /\ stack # <<>> /\ Top.fn \in StrlenFns =>
          UNCHANGED <<stdout, proc, status, traps, results>>
    /\ stack # <<>> /\ stack' = <<>> /\ entry.fn \in StrlenFns \cup WriteFns \cup {"printf"} =>
          rv' = C7_Result(entry, results)

C7_NoInternalState == [][C7_Step]_vars

C7_Witness ==
    /\ Returned
    /\ ncalls = 2
    /\ entry.fn = "strlen"
    /\ rv = 13
    /\ stdout # <<>>

---------------------------------------------------------------------------
(* C8: a partial transfer is not compensated.  When the kernel takes k of  *)
(* the 13 bytes, 0 <= k < 13, write hands k back to print (to main in      *)
(* working_hello.c), the result is dropped, no second write is made, the   *)
(* stream holds exactly the first k bytes, and the only further request is *)
(* exit with status 0.                                                     *)
C8_Partial ==
    /\ entry.fn \in {"hello_world_main", "working_hello_main"}
    /\ results # <<>>
    /\ results[1] \in 0..12
    =>
    /\ stdout = Prefix(results[1])
    /\ Len(results) = 1
    /\ Len(traps) <= 2
    /\ Len(traps) = 2 => traps[2] = <<SYS_EXIT, 0>>
    /\ proc # "Crashed"
    /\ proc = "Terminated" => status = 0 /\ Len(traps) = 2
    /\ stack # <<>> /\ Top.fn = "print" /\ Top.pc = "44" => rv = results[1]
    /\ stack # <<>> /\ Top.fn = "working_hello_main" /\ Top.pc = "35" => rv = results[1]

C8_Witness ==
    /\ entry.fn = "hello_world_main"
    /\ proc = "Terminated"
    /\ results = <<5>>
    /\ stdout = Prefix(5)
    /\ status = 0

---------------------------------------------------------------------------
(* C9: the printf stub.                                                    *)

\* what every returned printf call satisfies: one write of the format's    
\* bytes to handle 1 with count length_of(format), length_of(format)       
\* returned whatever the write did                                         
C9_Stub ==
    /\ traps = << <<1, 1, entry.a[1], FirstZero(entry.a[1])>> >>
    /\ Len(results) = 1
    /\ rv = FirstZero(entry.a[1])
    /\ results[1] >= 0 => stdout = out0 \o SubSeq(mem, entry.a[1], entry.a[1] + results[1] - 1)
    /\ results[1] < 0 => stdout = out0

\* C9 as stated: ... and the value returned differs from the number of     
\* bytes emitted whenever the write fails or is partial.                   
C9_AsStated ==
    Returned /\ entry.fn = "printf" =>
        /\ C9_Stub
        /\ results[1] < FirstZero(entry.a[1]) => rv # Emitted

(* C9 (amended): printf issues exactly one write of the format's bytes to  *)
(* handle 1 with count length_of(format) and returns length_of(format) in  *)
(* every case; the value returned differs from the number of bytes emitted *)
(* whenever the write is partial or fails on a non-empty format, and for   *)
(* an empty format both are zero even when the write fails.                *)
C9_PrintfStub ==
    Returned /\ entry.fn = "printf" =>
        /\ C9_Stub
        /\ results[1] < FirstZero(entry.a[1]) /\ FirstZero(entry.a[1]) > 0 => rv # Emitted
        /\ FirstZero(entry.a[1]) = 0 => rv = 0 /\ Emitted = 0
        /\ results[1] = FirstZero(entry.a[1]) => rv = Emitted

C9_Witness ==
    /\ Returned
    /\ entry.fn = "printf"
    /\ rv = 13
    /\ results = <<-9>>
    /\ Emitted = 0

---------------------------------------------------------------------------
(* C10: the three hello-world variants are observationally equivalent.     *)
(* Whatever the kernel answers, each makes the same requests, first        *)
(* {1, 1, address of the message, 13} and then {60, 0}, leaves on the      *)
(* stream the bytes the kernel took, and exits with status 0: the          *)
(* observation is one function of the kernel's answer, the same for the    *)
(* three files.                                                            *)
C10_Requests == << <<1, 1, HelloAddr, 13>>, <<60, 0>> >>

C10_Equivalent ==
    entry.fn \in HelloMains =>
        /\ Len(traps) <= 2
        /\ traps = SubSeq(C10_Requests, 1, Len(traps))
        /\ Len(results) = (IF traps = <<>> THEN 0 ELSE 1)
        /\ stdout = (IF results # <<>> /\ results[1] > 0 THEN Prefix(results[1]) ELSE <<>>)
        /\ proc # "Crashed"
        /\ proc = "Terminated" <=> Len(traps) = 2
        /\ proc = "Terminated" => status = 0

C10_Witness ==
    /\ entry.fn = "inline_hello_main"
    /\ proc = "Terminated"
    /\ results = <<-32>>
    /\ stdout = <<>>

====
